---- MODULE Spec2Model ----
(***************************************************************************)
(* A model of the adaptive throttle of src/adaptive.go: the throttle's     *)
(* configuration, its mutex, its per-priority rolling window counters and  *)
(* the steps of concurrent calls to WithAdaptiveThrottle.                  *)
(*                                                                         *)
(* Numbers.  Counter values are integers; k and minPerWindow are float64   *)
(* in the source and are drawn here from small sets of integers.  The      *)
(* rejection probability is kept exact: a fraction num/den with den > 0,   *)
(* or one of the float64 specials +Inf and NaN that the division of line   *)
(* 155 produces when requests + minPerWindow is 0.  float64 rounding is    *)
(* not modelled (the counts of the model are far below 2^53).              *)
(*                                                                         *)
(* Time is in ticks; one bucket of a counter is WindowTicks \div NumBuckets *)
(* ticks wide.  The clock is observed only by time.Now() (lines 136 and    *)
(* 168), which returns an instant not before the ones it returned earlier. *)
(***************************************************************************)
EXTENDS Integers, FiniteSets, Sequences, TLC

\* ------------------------------------------------------------ bounds

\* number of goroutines calling WithAdaptiveThrottle
Threads == {1, 2}

\* the priorities argument of NewAdaptiveThrottle
NumPriorities == 2

\* the priorities a caller may pass: both valid ones and one out of range
\* on each side
CallPriorities == (0 - 1) .. NumPriorities

\* the clock stops advancing at MaxTime
MaxTime == 11

\* the instants at which the model looks at the clock: the start and the last
\* two ticks (with MaxTime = Window + 1: a full window after the start, and
\* one tick more)
TimePoints == {0, MaxTime - 1, MaxTime}

\* calls to WithAdaptiveThrottle started in one behaviour
MaxCalls == 2

\* opts.d in ticks (WithAdaptiveThrottleWindow)
WindowTicks == 10

\* values of opts.k (WithAdaptiveThrottleRatio); the default is 2
KValues == {0 - 1, 0, 1, 2}

\* values of opts.minRate * opts.d.Seconds(); the default is 1 * 60
MinPerWindowValues == {0, 1}

\* the draws of rand.Float64(), as <<numerator, denominator>>, in [0, 1)
RandDraws == {<<0, 1>>, <<1, 2>>}

\* the counts the rejection formula is evaluated on, alone, are within
\* -MaxCount .. MaxCount (requests) and 0 .. MaxCount (accepts)
MaxCount == 3

\* the value a work function returns (the zero value of T is ZeroValue)
WorkValues == {1}

\* the errors a work function returns: none, one isErrorAccepted accepts,
\* one it does not accept, and one on which isErrorAccepted itself panics
WorkErrors == {"nil", "exempt", "counted", "throws"}

\* ------------------------------------------------------------ constants

NumBuckets == 10

ZeroValue == 0

DefaultClientSideRejectionError == "ErrClientRejection"

VARIABLES
    k,              \* at.k
    minPerWindow,   \* at.minPerWindow
    m,              \* at.m: 0 when unlocked, else the thread holding it
    requests,       \* at.requests: priority -> windowed counter
    accepts,        \* at.accepts: priority -> windowed counter
    clock,          \* the latest instant time.Now() has returned
    calls,          \* calls started so far
    pc,             \* thread -> its position in WithAdaptiveThrottle
    p,              \* thread -> the priority argument of its call
    now,            \* thread -> the local now
    lrequests,      \* thread -> the local requests (line 146..152)
    laccepts,       \* thread -> the local accepts (line 147)
    rejectionProbability, \* thread -> the local of line 155
    fres,           \* thread -> what f() returned: [val, err]
    fcalls,         \* thread -> how often its current call invoked f
    ret,            \* thread -> what the call returned: [val, err]
    locks,          \* thread -> how often its current call took at.m
    at,             \* what NewAdaptiveThrottle gave: "nil" before it is called,
                    \* "constructed" once it returned, "panicked" if it did not
    priorities      \* the priorities argument NewAdaptiveThrottle was given

vars == <<k, minPerWindow, m, requests, accepts, clock, calls, pc, p, now,
          lrequests, laccepts, rejectionProbability, fres, fcalls, ret, locks,
          at, priorities>>

config == <<k, minPerWindow, at, priorities>>
counters == <<requests, accepts>>
locals == <<p, now, lrequests, laccepts, rejectionProbability, fres, fcalls, ret>>

\* ------------------------------------------------------------ windowedCounter

\* newWindowedCounter given the whole window as the width of one bucket
WidthUndivided == WindowTicks

\* opts.d/10: the width of one bucket
Width == WindowTicks \div NumBuckets

\* the bucket a time falls in
Bucket(t) == t \div Width

\* the slot a time falls in
SlotOf(t) == Bucket(t) % NumBuckets

\* the trailing duration the counter covers
Window == Width * NumBuckets

\* newWindowedCounter(now, width, n): n empty slots; total is the number of
\* events ever recorded and log the number recorded at each instant (history
\* fields, never read by get)
newWindowedCounter(t) ==
    [ts |-> [i \in 0 .. NumBuckets - 1 |-> Bucket(t)],
     count |-> [i \in 0 .. NumBuckets - 1 |-> 0],
     total |-> 0,
     log |-> [t0 \in TimePoints |-> 0]]

\* add(t, n): reset the slot of t's bucket if it holds another bucket's
\* count, then add n
wcAdd(c, t, n) ==
    LET i == SlotOf(t)
        old == IF c.ts[i] = Bucket(t) THEN c.count[i] ELSE 0
    IN  [ts |-> [c.ts EXCEPT ![i] = Bucket(t)],
         count |-> [c.count EXCEPT ![i] = old + n],
         total |-> c.total + n,
         log |-> [c.log EXCEPT ![t] = @ + n]]

\* a slot counts at time t unless its bucket started more than Window before t
SlotValid(c, i, t) == t - c.ts[i] * Width <= Window

RECURSIVE SumSlots(_, _, _)
SumSlots(c, t, i) ==
    IF i = NumBuckets THEN 0
    ELSE (IF SlotValid(c, i, t) THEN c.count[i] ELSE 0) + SumSlots(c, t, i + 1)

\* get(t): the sum of the slots that are not stale at t; c is not changed
wcGet(c, t) == SumSlots(c, t, 0)

\* ------------------------------------------------------------ line 155

NaN == [kind |-> "nan", num |-> 0, den |-> 1]
PosInf == [kind |-> "inf", num |-> 1, den |-> 1]
Fraction(n, d) == [kind |-> "fin", num |-> n, den |-> d]

\* math.Max(0, num/den) in float64: x/0 is +Inf, -Inf or NaN; Max(0, NaN) is
\* NaN, Max(0, -Inf) is 0
MaxZeroDiv(num, den) ==
    IF den = 0
    THEN (IF num > 0 THEN PosInf ELSE IF num < 0 THEN Fraction(0, 1) ELSE NaN)
    ELSE LET n == IF den < 0 THEN 0 - num ELSE num
             d == IF den < 0 THEN 0 - den ELSE den
         IN  IF n <= 0 THEN Fraction(0, 1) ELSE Fraction(n, d)

\* the formula without minPerWindow in the denominator
RejectionProbabilityNoMin(req, acc, kk, mpw) ==
    MaxZeroDiv(req - kk * acc, req)

\* the formula with k*accepts added instead of subtracted
RejectionProbabilityPlus(req, acc, kk, mpw) ==
    MaxZeroDiv(req + kk * acc, req + mpw)

\* math.Max(0, (requests-at.k*accepts)/(requests+at.minPerWindow))
RejectionProbability(req, acc, kk, mpw) ==
    MaxZeroDiv(req - kk * acc, req + mpw)

\* rand.Float64() < rejectionProbability
DrawBelow(draw, prob) ==
    CASE prob.kind = "nan" -> FALSE
      [] prob.kind = "inf" -> TRUE
      [] OTHER -> draw[1] * prob.den < prob.num * draw[2]

\* ------------------------------------------------------------ lines 146..152

\* no cascading: the higher priorities are not looked at
HigherNonAcceptsNone(reqs, accs, pr, t) == 0

RECURSIVE NonAcceptsOver(_, _, _, _)
\* the sum over i in S of requests[i].get(now) - accepts[i].get(now)
NonAcceptsOver(reqs, accs, S, t) ==
    IF S = {} THEN 0
    ELSE LET i == CHOOSE x \in S : TRUE
         IN  (wcGet(reqs[i], t) - wcGet(accs[i], t))
             + NonAcceptsOver(reqs, accs, S \ {i}, t)

\* a loop over every other priority, not only the more important ones
HigherNonAcceptsAll(reqs, accs, pr, t) ==
    NonAcceptsOver(reqs, accs, DOMAIN reqs \ {pr}, t)

RECURSIVE HigherNonAccepts(_, _, _, _)
\* the sum over i < pr of requests[i].get(now) - accepts[i].get(now)
HigherNonAccepts(reqs, accs, pr, t) ==
    IF pr = 0 THEN 0
    ELSE (wcGet(reqs[pr - 1], t) - wcGet(accs[pr - 1], t))
         + HigherNonAccepts(reqs, accs, pr - 1, t)

\* the local requests after the loop of lines 148..152
AggregateRequests(reqs, accs, pr, t) ==
    wcGet(reqs[pr], t) + HigherNonAccepts(reqs, accs, pr, t)

\* the local accepts of line 147
ReadAccepts(accs, pr, t) == wcGet(accs[pr], t)

\* indexing at.requests[int(p)] panics outside [0, len(at.requests))
InRange(pr) == pr \in DOMAIN requests

\* ------------------------------------------------------------ isErrorAccepted

\* the predicate of line 171, on the errors of the model
isErrorAccepted(err) == err = "exempt"

\* an accept only for a nil error
CountsAsAcceptOnlyNil(err) == err = "nil"

\* an accept for no outcome at all
CountsAsAcceptNever(err) == FALSE

\* err == nil || at.isErrorAccepted(err)
CountsAsAccept(err) == err = "nil" \/ isErrorAccepted(err)

\* ------------------------------------------------------------ initial state

NoResult == [val |-> ZeroValue, err |-> "none"]

Init ==
    /\ k \in KValues
    /\ minPerWindow \in MinPerWindowValues
    /\ m = 0
    /\ clock = 0
    /\ requests = [i \in 0 .. NumPriorities - 1 |-> newWindowedCounter(0)]
    /\ accepts = [i \in 0 .. NumPriorities - 1 |-> newWindowedCounter(0)]
    /\ calls = 0
    /\ pc = [t \in Threads |-> "idle"]
    /\ p = [t \in Threads |-> 0]
    /\ now = [t \in Threads |-> 0]
    /\ lrequests = [t \in Threads |-> 0]
    /\ laccepts = [t \in Threads |-> 0]
    /\ rejectionProbability = [t \in Threads |-> Fraction(0, 1)]
    /\ fres = [t \in Threads |-> NoResult]
    /\ fcalls = [t \in Threads |-> 0]
    /\ ret = [t \in Threads |-> NoResult]
    /\ locks = [t \in Threads |-> 0]
    /\ at = "constructed"
    /\ priorities = NumPriorities

\* ------------------------------------------------------------ steps

\* time.Now(): an instant not before any instant read earlier
Instants == {tm \in TimePoints : tm >= clock}

\* line 136: a goroutine enters WithAdaptiveThrottle(at, pr, f), for the first
\* time or after its previous call returned
Call(t, pr, tm) ==
    /\ pc[t] \in {"idle", "done"}
    /\ calls < MaxCalls
    /\ calls' = calls + 1
    /\ p' = [p EXCEPT ![t] = pr]
    /\ clock' = tm
    /\ now' = [now EXCEPT ![t] = tm]
    /\ lrequests' = [lrequests EXCEPT ![t] = 0]
    /\ laccepts' = [laccepts EXCEPT ![t] = 0]
    /\ rejectionProbability' = [rejectionProbability EXCEPT ![t] = Fraction(0, 1)]
    /\ fres' = [fres EXCEPT ![t] = NoResult]
    /\ fcalls' = [fcalls EXCEPT ![t] = 0]
    /\ ret' = [ret EXCEPT ![t] = NoResult]
    /\ locks' = [locks EXCEPT ![t] = 0]
    /\ pc' = [pc EXCEPT ![t] = "lockRead"]
    /\ UNCHANGED <<config, m, counters>>

\* a Lock() that does not wait for the holder to unlock
LockNoWait(t, from, to) ==
    /\ pc[t] = from
    /\ m' = t
    /\ locks' = [locks EXCEPT ![t] = @ + 1]
    /\ pc' = [pc EXCEPT ![t] = to]
    /\ UNCHANGED <<config, counters, clock, calls, locals>>

\* at.m.Lock() of lines 145, 159 and 169
Lock(t, from, to) ==
    /\ pc[t] = from
    /\ m = 0
    /\ m' = t
    /\ locks' = [locks EXCEPT ![t] = @ + 1]
    /\ pc' = [pc EXCEPT ![t] = to]
    /\ UNCHANGED <<config, counters, clock, calls, locals>>

LockRead(t) == Lock(t, "lockRead", "read")

\* a read phase that lets an index out of range through: no read, no panic
ReadPhaseUnchecked(t, draw) ==
    /\ pc[t] = "read"
    /\ m' = 0
    /\ IF ~InRange(p[t])
       THEN /\ pc' = [pc EXCEPT ![t] = "call"]
            /\ UNCHANGED <<lrequests, laccepts, rejectionProbability>>
       ELSE LET req == AggregateRequests(requests, accepts, p[t], now[t])
                acc == ReadAccepts(accepts, p[t], now[t])
                prob == RejectionProbability(req, acc, k, minPerWindow)
            IN  /\ lrequests' = [lrequests EXCEPT ![t] = req]
                /\ laccepts' = [laccepts EXCEPT ![t] = acc]
                /\ rejectionProbability' = [rejectionProbability EXCEPT ![t] = prob]
                /\ pc' = [pc EXCEPT ![t] =
                            IF DrawBelow(draw, prob) THEN "lockReject" ELSE "call"]
    /\ UNCHANGED <<config, locks, counters, clock, calls, p, now, fres, fcalls, ret>>

\* lines 146..157: the reads under the lock, the unlock, the probability
\* and the draw; an index out of range panics with the lock held
ReadPhase(t, draw) ==
    /\ pc[t] = "read"
    /\ IF ~InRange(p[t])
       THEN /\ pc' = [pc EXCEPT ![t] = "panicked"]
            /\ UNCHANGED <<m, lrequests, laccepts, rejectionProbability>>
       ELSE LET req == AggregateRequests(requests, accepts, p[t], now[t])
                acc == ReadAccepts(accepts, p[t], now[t])
                prob == RejectionProbability(req, acc, k, minPerWindow)
            IN  /\ lrequests' = [lrequests EXCEPT ![t] = req]
                /\ laccepts' = [laccepts EXCEPT ![t] = acc]
                /\ rejectionProbability' = [rejectionProbability EXCEPT ![t] = prob]
                /\ m' = 0
                /\ pc' = [pc EXCEPT ![t] =
                            IF DrawBelow(draw, prob) THEN "lockReject" ELSE "call"]
    /\ UNCHANGED <<config, locks, counters, clock, calls, p, now, fres, fcalls, ret>>

LockReject(t) == Lock(t, "lockReject", "reject")

\* a self-rejection that also records an accept
RejectWriteCountsAccept(t) ==
    /\ pc[t] = "reject"
    /\ requests' = [requests EXCEPT ![p[t]] = wcAdd(@, now[t], 1)]
    /\ accepts' = [accepts EXCEPT ![p[t]] = wcAdd(@, now[t], 1)]
    /\ m' = 0
    /\ ret' = [ret EXCEPT ![t] =
                 [val |-> ZeroValue, err |-> DefaultClientSideRejectionError]]
    /\ pc' = [pc EXCEPT ![t] = "done"]
    /\ UNCHANGED <<config, locks, clock, calls, p, now, lrequests, laccepts,
                   rejectionProbability, fres, fcalls>>

\* a self-rejection that records nothing
RejectWriteNoCount(t) ==
    /\ pc[t] = "reject"
    /\ m' = 0
    /\ ret' = [ret EXCEPT ![t] =
                 [val |-> ZeroValue, err |-> DefaultClientSideRejectionError]]
    /\ pc' = [pc EXCEPT ![t] = "done"]
    /\ UNCHANGED <<config, locks, counters, clock, calls, p, now, lrequests,
                   laccepts, rejectionProbability, fres, fcalls>>

\* lines 160..163: the self-rejection
RejectWrite(t) ==
    /\ pc[t] = "reject"
    /\ requests' = [requests EXCEPT ![p[t]] = wcAdd(@, now[t], 1)]
    /\ m' = 0
    /\ ret' = [ret EXCEPT ![t] =
                 [val |-> ZeroValue, err |-> DefaultClientSideRejectionError]]
    /\ pc' = [pc EXCEPT ![t] = "done"]
    /\ UNCHANGED <<config, locks, accepts, clock, calls, p, now, lrequests, laccepts,
                   rejectionProbability, fres, fcalls>>

\* f invoked with the lock taken first
WorkStartLocked(t) ==
    /\ pc[t] = "call"
    /\ m = 0
    /\ m' = t
    /\ fcalls' = [fcalls EXCEPT ![t] = @ + 1]
    /\ pc' = [pc EXCEPT ![t] = "work"]
    /\ UNCHANGED <<config, locks, counters, clock, calls, p, now, lrequests, laccepts,
                   rejectionProbability, fres, ret>>

\* line 166: f is invoked
WorkStart(t) ==
    /\ pc[t] = "call"
    /\ fcalls' = [fcalls EXCEPT ![t] = @ + 1]
    /\ pc' = [pc EXCEPT ![t] = "work"]
    /\ UNCHANGED <<config, locks, m, counters, clock, calls, p, now, lrequests, laccepts,
                   rejectionProbability, fres, ret>>

\* lines 166..168: f returns (it need not), and now is read again
WorkReturn(t, val, err, tm) ==
    /\ pc[t] = "work"
    /\ fres' = [fres EXCEPT ![t] = [val |-> val, err |-> err]]
    /\ clock' = tm
    /\ now' = [now EXCEPT ![t] = tm]
    /\ pc' = [pc EXCEPT ![t] = "lockWrite"]
    /\ UNCHANGED <<config, locks, m, counters, calls, p, lrequests, laccepts,
                   rejectionProbability, fcalls, ret>>

LockWrite(t) == Lock(t, "lockWrite", "write")

\* a return that drops the value when there is an error
ReturnZeroOnError(res) ==
    IF res.err = "nil" THEN res ELSE [val |-> ZeroValue, err |-> res.err]

\* line 176: return t, err
ReturnOfWork(res) == res

\* a write phase that records the request at every priority up to its own
WritePhaseUpTo(t) ==
    /\ pc[t] = "write"
    /\ requests' = [q \in DOMAIN requests |->
                       IF q <= p[t] THEN wcAdd(requests[q], now[t], 1)
                       ELSE requests[q]]
    /\ IF fres[t].err = "throws"
       THEN /\ pc' = [pc EXCEPT ![t] = "panicked"]
            /\ UNCHANGED <<m, accepts, ret>>
       ELSE /\ accepts' = IF CountsAsAccept(fres[t].err)
                          THEN [accepts EXCEPT ![p[t]] = wcAdd(@, now[t], 1)]
                          ELSE accepts
            /\ m' = 0
            /\ ret' = [ret EXCEPT ![t] = ReturnOfWork(fres[t])]
            /\ pc' = [pc EXCEPT ![t] = "done"]
    /\ UNCHANGED <<config, locks, clock, calls, p, now, lrequests, laccepts,
                   rejectionProbability, fres, fcalls>>

\* lines 170..176: the write under the lock; isErrorAccepted may panic,
\* after the request was added and with the lock held
WritePhase(t) ==
    /\ pc[t] = "write"
    /\ requests' = [requests EXCEPT ![p[t]] = wcAdd(@, now[t], 1)]
    /\ IF fres[t].err = "throws"
       THEN /\ pc' = [pc EXCEPT ![t] = "panicked"]
            /\ UNCHANGED <<m, accepts, ret>>
       ELSE /\ accepts' = IF CountsAsAccept(fres[t].err)
                          THEN [accepts EXCEPT ![p[t]] = wcAdd(@, now[t], 1)]
                          ELSE accepts
            /\ m' = 0
            /\ ret' = [ret EXCEPT ![t] = ReturnOfWork(fres[t])]
            /\ pc' = [pc EXCEPT ![t] = "done"]
    /\ UNCHANGED <<config, locks, clock, calls, p, now, lrequests, laccepts,
                   rejectionProbability, fres, fcalls>>

\* the steps of the program, with the errors work may return
NextWith(errs) ==
    \/ \E t \in Threads, pr \in CallPriorities, tm \in Instants : Call(t, pr, tm)
    \/ \E t \in Threads : LockRead(t)
    \/ \E t \in Threads, draw \in RandDraws : ReadPhase(t, draw)
    \/ \E t \in Threads : LockReject(t)
    \/ \E t \in Threads : RejectWrite(t)
    \/ \E t \in Threads : WorkStart(t)
    \/ \E t \in Threads, val \in WorkValues, err \in errs, tm \in Instants :
           WorkReturn(t, val, err, tm)
    \/ \E t \in Threads : LockWrite(t)
    \/ \E t \in Threads : WritePhase(t)

Next == NextWith(WorkErrors)

Spec == Init /\ [][Next]_vars

\* the program when every call to work succeeds
NextHealthy == NextWith({"nil"})

SpecHealthy == Init /\ [][NextHealthy]_vars

\* the program when every call to work fails with an error that is not exempt
NextFailing == NextWith({"counted"})

SpecFailing == Init /\ [][NextFailing]_vars

\* ------------------------------------------------------------ construction

\* the priorities argument NewAdaptiveThrottle is called with
ConstructPriorities == (0 - 1) .. NumPriorities

\* opts.k when no option sets it
DefaultK == 2

\* opts.minRate * opts.d.Seconds() when no option sets minRate (1) and the
\* window is one second
DefaultMinPerWindow == 1

\* the state before NewAdaptiveThrottle is called: no throttle
InitConstruct ==
    /\ k = 0
    /\ minPerWindow = 0
    /\ m = 0
    /\ clock = 0
    /\ requests = [i \in {} |-> newWindowedCounter(0)]
    /\ accepts = [i \in {} |-> newWindowedCounter(0)]
    /\ calls = 0
    /\ pc = [t \in Threads |-> "idle"]
    /\ p = [t \in Threads |-> 0]
    /\ now = [t \in Threads |-> 0]
    /\ lrequests = [t \in Threads |-> 0]
    /\ laccepts = [t \in Threads |-> 0]
    /\ rejectionProbability = [t \in Threads |-> Fraction(0, 1)]
    /\ fres = [t \in Threads |-> NoResult]
    /\ fcalls = [t \in Threads |-> 0]
    /\ ret = [t \in Threads |-> NoResult]
    /\ locks = [t \in Threads |-> 0]
    /\ at = "nil"
    /\ priorities = 0

\* a constructor that refuses a number of priorities that is not positive
NewAdaptiveThrottleChecked(n, tm) ==
    /\ at = "nil"
    /\ priorities' = n
    /\ clock' = tm
    /\ IF n <= 0
       THEN /\ at' = "panicked"
            /\ UNCHANGED <<k, minPerWindow, counters>>
       ELSE /\ at' = "constructed"
            /\ k' = DefaultK
            /\ minPerWindow' = DefaultMinPerWindow
            /\ requests' = [i \in 0 .. n - 1 |-> newWindowedCounter(tm)]
            /\ accepts' = [i \in 0 .. n - 1 |-> newWindowedCounter(tm)]
    /\ UNCHANGED <<m, calls, pc, locals, locks>>

\* lines 94..120: NewAdaptiveThrottle(n) with no options.  make([]T, n)
\* (line 106) panics for n < 0 and gives an empty slice for n = 0; nothing
\* else looks at n
NewAdaptiveThrottle(n, tm) ==
    /\ at = "nil"
    /\ priorities' = n
    /\ clock' = tm
    /\ IF n < 0
       THEN /\ at' = "panicked"
            /\ UNCHANGED <<k, minPerWindow, counters>>
       ELSE /\ at' = "constructed"
            /\ k' = DefaultK
            /\ minPerWindow' = DefaultMinPerWindow
            /\ requests' = [i \in 0 .. n - 1 |-> newWindowedCounter(tm)]
            /\ accepts' = [i \in 0 .. n - 1 |-> newWindowedCounter(tm)]
    /\ UNCHANGED <<m, calls, pc, locals, locks>>

\* the constructor, then calls on the throttle it returned
NextConstruct ==
    \/ \E n \in ConstructPriorities, tm \in Instants : NewAdaptiveThrottle(n, tm)
    \/ at = "constructed" /\ Next

SpecConstruct == InitConstruct /\ [][NextConstruct]_vars

\* ------------------------------------------------------------ scheduling

\* the throttle of NewAdaptiveThrottle(NumPriorities) with no options
InitDefault == Init /\ k = DefaultK /\ minPerWindow = DefaultMinPerWindow

\* the calls on that throttle
SpecDefault == InitDefault /\ [][Next]_vars

\* what the scheduler and sync.Mutex give a goroutine: a goroutine that can
\* run its next statement eventually runs it, and a goroutine waiting in
\* Lock() gets the mutex if it is released again and again (a waiter is
\* handed the mutex in starvation mode).  Nothing makes a caller call, and
\* nothing makes f return.
Fairness ==
    \A t \in Threads :
        /\ WF_vars(\E draw \in RandDraws : ReadPhase(t, draw))
        /\ WF_vars(RejectWrite(t))
        /\ WF_vars(WorkStart(t))
        /\ WF_vars(WritePhase(t))
        /\ SF_vars(LockRead(t))
        /\ SF_vars(LockReject(t))
        /\ SF_vars(LockWrite(t))

\* the calls on that throttle under this scheduling
SpecFair == SpecDefault /\ Fairness

\* ------------------------------------------------------------ one window

\* the throttle of NewAdaptiveThrottle(NumPriorities) with no options,
\* constructed at instant MaxTime - 1: every instant from then on is within
\* one window of every other
InitWindow ==
    /\ k = DefaultK
    /\ minPerWindow = DefaultMinPerWindow
    /\ m = 0
    /\ clock = MaxTime - 1
    /\ requests = [i \in 0 .. NumPriorities - 1 |-> newWindowedCounter(MaxTime - 1)]
    /\ accepts = [i \in 0 .. NumPriorities - 1 |-> newWindowedCounter(MaxTime - 1)]
    /\ calls = 0
    /\ pc = [t \in Threads |-> "idle"]
    /\ p = [t \in Threads |-> 0]
    /\ now = [t \in Threads |-> 0]
    /\ lrequests = [t \in Threads |-> 0]
    /\ laccepts = [t \in Threads |-> 0]
    /\ rejectionProbability = [t \in Threads |-> Fraction(0, 1)]
    /\ fres = [t \in Threads |-> NoResult]
    /\ fcalls = [t \in Threads |-> 0]
    /\ ret = [t \in Threads |-> NoResult]
    /\ locks = [t \in Threads |-> 0]
    /\ at = "constructed"
    /\ priorities = NumPriorities

\* the calls on it, with an isErrorAccepted that does not panic
NextWindow == NextWith(WorkErrors \ {"throws"})

SpecWindow == InitWindow /\ [][NextWindow]_vars

\* ------------------------------------------------------------ the formula alone

\* two evaluations of line 155, one per element of Threads, on counts drawn
\* from -MaxCount .. MaxCount and 0 .. MaxCount under one configuration
InitFormula ==
    /\ k \in KValues
    /\ minPerWindow \in MinPerWindowValues
    /\ lrequests \in [Threads -> (0 - MaxCount) .. MaxCount]
    /\ laccepts \in [Threads -> 0 .. MaxCount]
    /\ m = 0
    /\ clock = 0
    /\ requests = [i \in 0 .. NumPriorities - 1 |-> newWindowedCounter(0)]
    /\ accepts = [i \in 0 .. NumPriorities - 1 |-> newWindowedCounter(0)]
    /\ calls = 0
    /\ pc = [t \in Threads |-> "idle"]
    /\ p = [t \in Threads |-> 0]
    /\ now = [t \in Threads |-> 0]
    /\ rejectionProbability = [t \in Threads |-> Fraction(0, 1)]
    /\ fres = [t \in Threads |-> NoResult]
    /\ fcalls = [t \in Threads |-> 0]
    /\ ret = [t \in Threads |-> NoResult]
    /\ locks = [t \in Threads |-> 0]
    /\ at = "constructed"
    /\ priorities = NumPriorities

\* line 155 applied to the counts of one evaluation
Evaluate(t) ==
    /\ pc[t] = "idle"
    /\ rejectionProbability' = [rejectionProbability EXCEPT ![t] =
           RejectionProbability(lrequests[t], laccepts[t], k, minPerWindow)]
    /\ pc' = [pc EXCEPT ![t] = "evaluated"]
    /\ UNCHANGED <<config, locks, m, counters, clock, calls, p, now, lrequests, laccepts,
                   fres, fcalls, ret>>

NextFormula == \E t \in Threads : Evaluate(t)

SpecFormula == InitFormula /\ [][NextFormula]_vars

\* ------------------------------------------------------------ properties

Rejection == [val |-> ZeroValue, err |-> DefaultClientSideRejectionError]

\* float64 x < y on the probabilities of the model (false when either is NaN)
ProbLess(x, y) ==
    CASE x.kind = "nan" \/ y.kind = "nan" -> FALSE
      [] x.kind = "inf" -> FALSE
      [] y.kind = "inf" -> TRUE
      [] OTHER -> x.num * y.den < y.num * x.den

\* 0 <= x < 1
InUnitInterval(x) == x.kind = "fin" /\ x.num >= 0 /\ x.num < x.den

\* x = 0
IsZero(x) == x.kind = "fin" /\ x.num = 0

\* thread t takes a step
Steps(t) == pc'[t] # pc[t]

\* the current call of t has computed its rejection probability
Computed(t) ==
    pc[t] \in {"lockReject", "reject", "call", "work", "lockWrite", "write", "done"}

\* C1: a self-rejecting call never invokes work; its write adds exactly one
\* event to the request counter of its priority (and, unless the slot is
\* recycled, the counter reads one more at the call's now), leaves the accept
\* counters and the other request counters as they are, and the call returns
\* the zero value with the client-side-rejection error.
C1_RejectedButCounted ==
    [][\A t \in Threads :
          (pc[t] \in {"lockReject", "reject"} /\ Steps(t)) =>
             /\ fcalls'[t] = 0
             /\ pc[t] = "lockReject" => (pc'[t] = "reject" /\ UNCHANGED counters)
             /\ pc[t] = "reject" =>
                   /\ pc'[t] = "done"
                   /\ ret'[t] = Rejection
                   /\ requests'[p[t]].total = requests[p[t]].total + 1
                   /\ \/ requests[p[t]].ts[SlotOf(now[t])] # Bucket(now[t])
                      \/ wcGet(requests'[p[t]], now[t])
                            = wcGet(requests[p[t]], now[t]) + 1
                   /\ accepts' = accepts
                   /\ \A q \in 0 .. NumPriorities - 1 :
                         q # p[t] => requests'[q] = requests[q]]_vars

\* a call has self-rejected and returned
C1_Witness ==
    \E t \in Threads :
        /\ pc[t] = "done" /\ ret[t] = Rejection /\ fcalls[t] = 0
        /\ requests[p[t]].total >= 2
        /\ accepts[p[t]].total < requests[p[t]].total

\* C2: no caller is in its work function, or about to enter it, while it
\* holds the lock.
C2_WorkOutsideLock ==
    \A t \in Threads : pc[t] \in {"call", "work"} => m # t

\* a caller is in its work function while the other caller holds the lock
C2_Witness ==
    \E t \in Threads : pc[t] = "work" /\ m # 0 /\ m # t

\* C3: a call that was not self-rejected invoked work exactly once and returns
\* exactly what work returned; a self-rejected call returns the
\* client-side-rejection error, the only error that does not come from work.
C3_PassThrough ==
    \A t \in Threads :
        /\ fcalls[t] <= 1
        /\ pc[t] \in {"work", "lockWrite", "write"} => fcalls[t] = 1
        /\ pc[t] = "done" =>
              IF fcalls[t] = 0
              THEN ret[t] = Rejection
              ELSE ret[t] = fres[t] /\ ret[t].val \in WorkValues
                   /\ ret[t].err \in WorkErrors

\* a call returned the value and the counted error work returned
C3_Witness ==
    \E t \in Threads :
        pc[t] = "done" /\ fcalls[t] = 1 /\ ret[t] = [val |-> 1, err |-> "counted"]

ProbabilityOn(reqs, accs, pr, tm) ==
    RejectionProbability(AggregateRequests(reqs, accs, pr, tm),
                         ReadAccepts(accs, pr, tm), k, minPerWindow)

\* priority 1 has no traffic and priority 0 has requests not accepted, at tm
CascadeCase(tm) ==
    /\ wcGet(requests[1], tm) = 0
    /\ wcGet(accepts[1], tm) = 0
    /\ wcGet(requests[0], tm) > wcGet(accepts[0], tm)

\* the accept counters had priority 0 accepted every request it recorded
AllAccepted == [accepts EXCEPT ![0] = requests[0]]

\* C5 as stated: whatever the configuration, in the cascade case the
\* probability of a priority-1 call is strictly greater than with priority 0
\* all accepted.
C5_Original ==
    \A tm \in Instants :
        CascadeCase(tm) =>
            ProbLess(ProbabilityOn(requests, AllAccepted, 1, tm),
                     ProbabilityOn(requests, accepts, 1, tm))

\* C5 amended: the same when minPerWindow > 0.
C5_Cascading ==
    minPerWindow > 0 => C5_Original

\* the cascade case with minPerWindow > 0
C5_Witness ==
    minPerWindow > 0 /\ \E tm \in Instants : CascadeCase(tm)

Evaluated == \A t \in Threads : pc[t] = "evaluated"

\* between two evaluations: more requests never give a smaller probability,
\* more accepts never a greater one
Monotone ==
    \A t1, t2 \in Threads :
        /\ (laccepts[t1] = laccepts[t2] /\ lrequests[t1] <= lrequests[t2]) =>
              ~ProbLess(rejectionProbability[t2], rejectionProbability[t1])
        /\ (lrequests[t1] = lrequests[t2] /\ laccepts[t1] <= laccepts[t2]) =>
              ~ProbLess(rejectionProbability[t1], rejectionProbability[t2])

\* the counts of both evaluations are counts: not negative
CountsNotNegative == \A t \in Threads : lrequests[t] >= 0 /\ laccepts[t] >= 0

NoRejection ==
    \A t \in Threads :
        /\ Computed(t) => ~ProbLess(Fraction(0, 1), rejectionProbability[t])
        /\ pc[t] \notin {"lockReject", "reject"}
        /\ ret[t] # Rejection

ShutsOff(x) == x.kind = "inf" \/ (x.kind = "fin" /\ x.num >= x.den)

\* C9 as stated (every call to work fails: SpecFailing): whatever the
\* configuration, no computed probability shuts admission off.
C9_Original ==
    \A t \in Threads : Computed(t) => ~ShutsOff(rejectionProbability[t])

\* C9 amended: when minPerWindow > 0 every computed probability is a number
\* in [0, 1), strictly below 1.
C9_Floor ==
    minPerWindow > 0 =>
        \A t \in Threads : Computed(t) => InUnitInterval(rejectionProbability[t])

\* after a recorded failure a call computes a positive probability and is
\* still admitted to work
C9_Witness ==
    /\ minPerWindow > 0
    /\ \E t \in Threads :
          /\ pc[t] = "work" /\ lrequests[t] >= 1
          /\ rejectionProbability[t].num > 0

\* C10: a call with a priority out of range never gets past its read: the
\* read panics, work is not invoked, and no step of the call changes a
\* counter.
C10_BadPriorityPanics ==
    [][\A t \in Threads :
          (Steps(t) /\ ~InRange(p'[t])) =>
             /\ pc'[t] \in {"lockRead", "read", "panicked"}
             /\ pc[t] = "read" => pc'[t] = "panicked"
             /\ fcalls'[t] = 0
             /\ ret'[t] = NoResult
             /\ UNCHANGED counters]_vars

\* a call with the priority just above the range has panicked, without
\* invoking work and with no event recorded
C10_Witness ==
    \E t \in Threads :
        /\ pc[t] = "panicked" /\ p[t] = NumPriorities /\ fcalls[t] = 0
        /\ \A q \in 0 .. NumPriorities - 1 : requests[q].total = 0

InThrottle ==
    {"lockRead", "read", "lockReject", "reject", "call", "lockWrite", "write"}

\* C12 (under fair scheduling: SpecFair): a call that is in the throttle's
\* own code eventually leaves it: it enters work, returns, or fails
\* fatally itself; it never waits for the lock forever, whatever the other
\* callers and their work functions do.
C12_Original ==
    \A t \in Threads :
        (pc[t] \in InThrottle) ~> (pc[t] \in {"work", "done", "panicked"})

RECURSIVE SumLog(_, _)
\* the events of a log recorded at the instants of S
SumLog(log, S) ==
    IF S = {} THEN 0
    ELSE LET t0 == CHOOSE x \in S : TRUE
         IN  log[t0] + SumLog(log, S \ {t0})

\* the events recorded in c at an instant not more than WindowTicks before tm
RecordedWithin(c, tm) ==
    SumLog(c.log, {t0 \in TimePoints : tm - t0 <= WindowTicks})

\* the times a counter is queried at: the instants of the clock, and a
\* window and a window and a tick after each
QueryTimes ==
    TimePoints \cup {t0 + WindowTicks : t0 \in TimePoints}
               \cup {t0 + WindowTicks + 1 : t0 \in TimePoints}

\* at no query time does c count an event recorded more than a window earlier
Decayed(c) == \A tm \in QueryTimes : wcGet(c, tm) <= RecordedWithin(c, tm)

\* C13: what a counter returns at time t counts no event recorded more than
\* the window opts.d before t, whatever was recorded later (so after a full
\* window with no adds the request and the accept counters return 0): the
\* counters start empty, and every counter a step changes is decayed after
\* it; and the reads of a call change no slot of any counter.
C13_WindowDecay ==
    [][/\ \A q \in DOMAIN requests' :
             /\ requests'[q] # requests[q] => Decayed(requests'[q])
             /\ accepts'[q] # accepts[q] => Decayed(accepts'[q])
       /\ \A t \in Threads :
             (pc[t] = "read" /\ Steps(t)) => UNCHANGED counters]_vars

\* a call read 0 requests at MaxTime from a counter that recorded a request
\* at instant 0 and still holds it in its slot
C13_Witness ==
    \E t \in Threads :
        /\ pc[t] = "call" /\ now[t] = MaxTime /\ InRange(p[t])
        /\ lrequests[t] = 0
        /\ requests[p[t]].log[0] >= 1
        /\ requests[p[t]].ts[SlotOf(0)] = Bucket(0)
        /\ requests[p[t]].count[SlotOf(0)] >= 1
        /\ wcGet(requests[p[t]], 0) >= 1

\* the positions between a Lock() and its Unlock(): the read phase and the
\* two write phases
InPhase == {"read", "reject", "write"}

\* C14: a call that returns has taken the lock exactly twice (no call takes
\* it more often); a call inside its read phase or its write phase holds the
\* lock, so no two calls are inside a phase together; the counters change
\* only in a step of the lock's holder; the read phase takes all its values
\* from one state of the counters, and the write phase of an admitted call
\* whose work succeeded records the request and the accept in one step, so
\* no state another call can read has the one without the other.
C14_TwoAtomicPhases ==
    [][\A t \in Threads :
          /\ pc'[t] \in InPhase => m' = t
          /\ locks'[t] <= 2
          /\ pc'[t] = "done" => locks'[t] = 2
          /\ (pc[t] \in InPhase /\ Steps(t)) =>
                /\ m = t
                /\ \A u \in Threads \ {t} : pc[u] \notin InPhase /\ ~Steps(u)
          /\ (counters' # counters) =>
                \E u \in Threads : m = u /\ pc[u] \in InPhase /\ Steps(u)
          /\ (pc[t] = "read" /\ pc'[t] # "panicked" /\ Steps(t)) =>
                /\ lrequests'[t] =
                      AggregateRequests(requests, accepts, p[t], now[t])
                /\ laccepts'[t] = ReadAccepts(accepts, p[t], now[t])
          /\ (pc[t] = "write" /\ Steps(t) /\ fres[t].err = "nil") =>
                /\ requests'[p[t]].total = requests[p[t]].total + 1
                /\ accepts'[p[t]].total = accepts[p[t]].total + 1
                /\ m' = 0]_vars

\* a call of priority 0 is in the write phase of a successful work, holding
\* the lock for the second time, while a call of priority 1 waits for the
\* lock to read
C14_Witness ==
    \E t, u \in Threads :
        /\ pc[t] = "write" /\ m = t /\ fres[t].err = "nil" /\ locks[t] = 2
        /\ pc[u] = "lockRead" /\ p[u] = 1 /\ p[t] = 0

\* C15: a call that is about to apply its timestamp to the counters of its
\* priority under the lock (a get in the read phase, an add in a write
\* phase) finds in them no event recorded with a later timestamp: the
\* timestamps a counter is given never go back.
C15_Original ==
    \A t \in Threads :
        (pc[t] \in InPhase /\ m = t /\ InRange(p[t])) =>
            \A t0 \in TimePoints :
                (requests[p[t]].log[t0] > 0 \/ accepts[p[t]].log[t0] > 0) =>
                    t0 <= now[t]

\* other contents for a request counter and an accept counter: both empty;
\* one request at the start, not accepted; two requests at the end, one
\* accepted
OtherCounters ==
    {<<newWindowedCounter(0), newWindowedCounter(0)>>,
     <<wcAdd(newWindowedCounter(0), 0, 1), newWindowedCounter(0)>>,
     <<wcAdd(wcAdd(newWindowedCounter(0), MaxTime, 1), MaxTime, 1),
       wcAdd(newWindowedCounter(0), MaxTime, 1)>>}

\* the counters cs with those of every priority less important than pr
\* replaced by alt
Mask(cs, pr, alt) == [i \in DOMAIN cs |-> IF i > pr THEN alt ELSE cs[i]]

\* C16: the probability a call at priority p computes is the one it would
\* compute with any other contents in the request and accept counters of
\* the less important priorities (i > p): it depends on the counters of the
\* priorities i <= p only.
C16_LowerPrioritiesIgnored ==
    [][\A t \in Threads :
          (pc[t] = "read" /\ Steps(t) /\ pc'[t] # "panicked"
              /\ \E q \in DOMAIN requests : q > p[t]) =>
             \A alt \in OtherCounters :
                rejectionProbability'[t] =
                   ProbabilityOn(Mask(requests, p[t], alt[1]),
                                 Mask(accepts, p[t], alt[2]), p[t], now[t])]_vars

\* a call at priority 0 computed its probability from 0 requests while
\* priority 1 holds a request that was not accepted
C16_Witness ==
    \E t, u \in Threads :
        /\ pc[u] = "done" /\ p[u] = 1 /\ ret[u].err = "counted"
        /\ pc[t] = "call" /\ p[t] = 0 /\ lrequests[t] = 0
        /\ wcGet(requests[1], now[t]) = 1 /\ wcGet(accepts[1], now[t]) = 0
        /\ IsZero(rejectionProbability[t])

\* C17: at every time a call may yet read at, the accept counter of every
\* priority returns at most what its request counter returns, and the
\* aggregated requests a call computed are not negative.
C17_Original ==
    /\ \A q \in DOMAIN requests, tm \in Instants :
          wcGet(accepts[q], tm) <= wcGet(requests[q], tm)
    /\ \A t \in Threads : Computed(t) => lrequests[t] >= 0

\* C18: a call that has ended, by returning or by failing fatally, does not
\* hold the lock.
C18_Original ==
    \A t \in Threads : pc[t] \in {"done", "panicked"} => m # t

\* the calls at priority q that return in this step
Returning(q) == {t \in Threads : Steps(t) /\ pc'[t] = "done" /\ p[t] = q}

\* those of them that were admitted and whose work returned no error or an
\* exempted one
ReturningAccepted(q) ==
    {t \in Returning(q) : fcalls[t] = 1 /\ fres[t].err \in {"nil", "exempt"}}

C20_Frame ==
    [][\A t \in Threads :
          Steps(t) =>
             /\ DOMAIN requests' = DOMAIN requests
             /\ DOMAIN accepts' = DOMAIN accepts
             /\ \A q \in DOMAIN requests :
                   q # p'[t] =>
                      requests'[q] = requests[q] /\ accepts'[q] = accepts[q]
             /\ pc[t] \notin {"reject", "write"} => UNCHANGED counters
             /\ pc[t] = "reject" => accepts' = accepts]_vars

\* a call at priority 1 has read over both priorities and written its request
\* and accept, and the counters of priority 0 hold the one failed request
\* they held before
C20_Witness ==
    \E t, u \in Threads :
        /\ pc[u] = "done" /\ p[u] = 0 /\ ret[u].err = "counted"
        /\ pc[t] = "done" /\ p[t] = 1 /\ ret[t].err = "nil" /\ lrequests[t] = 1
        /\ requests[0].total = 1 /\ accepts[0].total = 0
        /\ requests[1].total = 1 /\ accepts[1].total = 1

====
